---- MODULE Spec2Model ----
(***************************************************************************)
(* Model of webapp.py, the Streamlit fitness tracker: the PostgreSQL       *)
(* tables it reads and appends to, its seven data-access functions, and    *)
(* the five views that main() dispatches to.                               *)
(*                                                                         *)
(* Weights are counted in tenths of a kilogram (the weight form steps by   *)
(* 0.1), dates are day numbers.  A DataFrame is a record                   *)
(* [columns, rows]: pd.DataFrame() has no columns, the result of a query   *)
(* has the columns of its SELECT list even when it has no rows.            *)
(***************************************************************************)
EXTENDS Integers, Sequences, FiniteSets

VARIABLES users, exercise_types, goals, weight_records, workout_sessions,
          call, df, ok, raised, errors, view

db   == <<users, exercise_types, goals, weight_records, workout_sessions>>
vars == <<users, exercise_types, goals, weight_records, workout_sessions,
          call, df, ok, raised, errors, view>>

(* ---------------------------- bounds ---------------------------------- *)
MaxWeightRows  == 2
MaxWorkoutRows == 1

(* ------------------------- input domains ------------------------------ *)
UserIds        == {1, 2}
Notes          == {""}
\* <<weight, date>>
WeightEntries  == { <<685, 2>>, <<700, 1>> }
\* <<exercise_type_id, duration, calories, intensity, workout_date>>
WorkoutArgs    == { <<2, 30, 0, "high", 2>> }
\* candidate fillings of the workout form; the widgets hold only those
\* within their ranges
WorkoutEntries == { <<2, 1, 0, "high", 2>>, <<2, 0, -1, "high", 2>> }
ReadOutcomes   == {"ok", "connect_error", "query_error"}
WriteOutcomes  == {"ok", "connect_error", "execute_error", "commit_error"}

(* ------------------------- seeded tables ------------------------------ *)
\* username and email are the sequences of the code points of their
\* characters: "alice", "a@x", "bob", "b@x"
SeedUsers ==
  << [id |-> 1, username |-> <<97, 108, 105, 99, 101>>, email |-> <<97, 64, 120>>,
      age |-> 30, height_cm |-> 165],
     [id |-> 2, username |-> <<98, 111, 98>>, email |-> <<98, 64, 120>>,
      age |-> 41, height_cm |-> 180] >>

SeedExerciseTypes ==
  << [id |-> 1, name |-> "Run",  category |-> "cardio",   calories_per_minute |-> 10],
     [id |-> 2, name |-> "Swim", category |-> "cardio",   calories_per_minute |-> 8] >>

\* A status is the sequence of the code points of its characters, each
\* below U+0100.
Active    == <<97, 99, 116, 105, 118, 101>>                \* "active"
Completed == <<99, 111, 109, 112, 108, 101, 116, 101, 100>> \* "completed"

SeedGoals ==
  << [user_id |-> 1, goal_type |-> "weight_loss", target_value |-> 0,
      current_value |-> 50, target_date |-> 0, status |-> Active],
     [user_id |-> 1, goal_type |-> "run_distance", target_value |-> 100,
      current_value |-> 150, target_date |-> 2, status |-> Active],
     [user_id |-> 1, goal_type |-> "weight_gain", target_value |-> 10,
      current_value |-> -5, target_date |-> 2, status |-> Completed] >>

SeedWeightRecords ==
  { <<>>,
    << [user_id |-> 1, weight_kg |-> 700, recorded_date |-> 2, notes |-> ""] >> }

(* --------------------------- helpers ---------------------------------- *)
Count(s, x) == Cardinality({i \in DOMAIN s : s[i] = x})

\* s and t hold the same elements the same number of times
SameBag(s, t) ==
  /\ Len(s) = Len(t)
  /\ \A i \in DOMAIN s : Count(s, s[i]) = Count(t, s[i])

Perms(n) == {p \in [1..n -> 1..n] : \A i, j \in 1..n : p[i] = p[j] => i = j}

(* ------------------------- DataFrame ---------------------------------- *)
EmptyDataFrame == [columns |-> FALSE, rows |-> <<>>]
read_sql(rows) == [columns |-> TRUE, rows |-> rows]
empty(frame)   == Len(frame.rows) = 0

(* ---------------------- the five queries ------------------------------ *)
\* ORDER BY leaves the order of rows with equal keys to the server: every
\* arrangement of rows that is sorted on the key is a possible result.
OrderByAsc(rows, column) ==
  { [i \in 1..Len(rows) |-> rows[p[i]]] :
      p \in { q \in Perms(Len(rows)) :
                \A i, j \in 1..Len(rows) :
                   i < j => rows[q[i]][column] <= rows[q[j]][column] } }

OrderByDesc(rows, column) ==
  { [i \in 1..Len(rows) |-> rows[p[i]]] :
      p \in { q \in Perms(Len(rows)) :
                \A i, j \in 1..Len(rows) :
                   i < j => rows[q[i]][column] >= rows[q[j]][column] } }

\* the WHERE clause left out
WhereUser_AnyUser(table, user_id) == table

WhereUser(table, user_id) ==
  LET Test(r) == r.user_id = user_id IN SelectSeq(table, Test)

WeightColumns(r) ==
  [weight_kg |-> r.weight_kg, recorded_date |-> r.recorded_date, notes |-> r.notes]

\* the ORDER BY clause left out: the server answers in any order
weight_query_Unordered(table, user_id) ==
  LET sel  == WhereUser(table, user_id)
      rows == [i \in 1..Len(sel) |-> WeightColumns(sel[i])]
  IN  { [i \in 1..Len(rows) |-> rows[p[i]]] : p \in Perms(Len(rows)) }

weight_query(table, user_id) ==
  LET sel == WhereUser(table, user_id)
  IN  OrderByAsc([i \in 1..Len(sel) |-> WeightColumns(sel[i])], "recorded_date")

ExerciseOf(catalog, id) ==
  LET Test(e) == e.id = id IN SelectSeq(catalog, Test)

RECURSIVE JoinExercise(_, _)
\* workout_sessions ws JOIN exercise_types et ON ws.exercise_type_id = et.id
JoinExercise(sessions, catalog) ==
  IF sessions = <<>> THEN <<>>
  ELSE LET ws == Head(sessions)
           et == ExerciseOf(catalog, ws.exercise_type_id)
       IN  [i \in 1..Len(et) |->
              [workout_date     |-> ws.workout_date,
               exercise_name    |-> et[i].name,
               duration_minutes |-> ws.duration_minutes,
               calories_burned  |-> ws.calories_burned,
               intensity_level  |-> ws.intensity_level,
               category         |-> et[i].category]]
           \o JoinExercise(Tail(sessions), catalog)

workout_query(table, catalog, user_id) ==
  OrderByDesc(JoinExercise(WhereUser(table, user_id), catalog), "workout_date")

GoalColumns(r) ==
  [goal_type |-> r.goal_type, target_value |-> r.target_value,
   current_value |-> r.current_value, target_date |-> r.target_date,
   status |-> r.status]

goals_query(table, user_id) ==
  LET sel == WhereUser(table, user_id)
  IN  [i \in 1..Len(sel) |-> GoalColumns(sel[i])]

(* --------------------- data-access functions -------------------------- *)
\* psycopg2.connect either returns a connection or raises; the exception is
\* caught, reported with st.error, and None is returned.
get_db_connection(o) ==
  IF o = "connect_error"
  THEN [conn |-> FALSE, errors |-> <<"Database connection error">>]
  ELSE [conn |-> TRUE,  errors |-> <<>>]

\* The shared body of the five load_* functions: rs is the row sequence the
\* server answers the query with.
load(o, rs) ==
  LET c == get_db_connection(o) IN
  IF ~c.conn THEN [df |-> EmptyDataFrame, raised |-> "none", errors |-> c.errors]
  ELSE IF o = "query_error"
       THEN [df |-> EmptyDataFrame, raised |-> "DatabaseError", errors |-> c.errors]
       ELSE [df |-> read_sql(rs), raised |-> "none", errors |-> c.errors]

load_users(o, rs)          == load(o, rs)

\* the "if conn is None" return left out: read_sql is handed None
load_weight_data_NoneUnchecked(o, rs) ==
  LET c == get_db_connection(o) IN
  IF ~c.conn \/ o = "query_error"
  THEN [df |-> EmptyDataFrame, raised |-> "DatabaseError", errors |-> c.errors]
  ELSE [df |-> read_sql(rs), raised |-> "none", errors |-> c.errors]

load_weight_data(o, rs)    == load(o, rs)
load_workout_data(o, rs)   == load(o, rs)
load_goals(o, rs)          == load(o, rs)
load_exercise_types(o, rs) == load(o, rs)

WeightRow(user_id, weight, date_recorded, notes) ==
  [user_id |-> user_id, weight_kg |-> weight,
   recorded_date |-> date_recorded, notes |-> notes]

\* an upsert on the user: the user's earlier records are replaced
add_weight_record_Replace(table, user_id, weight, date_recorded, notes, o) ==
  LET c == get_db_connection(o)
      Others(r) == r.user_id # user_id
  IN
  IF ~c.conn THEN [ok |-> FALSE, table |-> table, errors |-> c.errors]
  ELSE IF o \in {"execute_error", "commit_error"}
       THEN [ok |-> FALSE, table |-> table,
             errors |-> c.errors \o <<"Error adding weight record">>]
       ELSE [ok |-> TRUE,
             table |-> Append(SelectSeq(table, Others),
                              WeightRow(user_id, weight, date_recorded, notes)),
             errors |-> c.errors]

\* the row survives a failed commit
add_weight_record_NoRollback(table, user_id, weight, date_recorded, notes, o) ==
  LET c == get_db_connection(o) IN
  IF ~c.conn THEN [ok |-> FALSE, table |-> table, errors |-> c.errors]
  ELSE IF o \in {"execute_error", "commit_error"}
       THEN [ok |-> FALSE,
             table |-> IF o = "commit_error"
                       THEN Append(table, WeightRow(user_id, weight, date_recorded, notes))
                       ELSE table,
             errors |-> c.errors \o <<"Error adding weight record">>]
       ELSE [ok |-> TRUE,
             table |-> Append(table, WeightRow(user_id, weight, date_recorded, notes)),
             errors |-> c.errors]

add_weight_record(table, user_id, weight, date_recorded, notes, o) ==
  LET c == get_db_connection(o) IN
  IF ~c.conn THEN [ok |-> FALSE, table |-> table, errors |-> c.errors]
  ELSE IF o \in {"execute_error", "commit_error"}
       THEN [ok |-> FALSE, table |-> table,
             errors |-> c.errors \o <<"Error adding weight record">>]
       ELSE [ok |-> TRUE,
             table |-> Append(table, WeightRow(user_id, weight, date_recorded, notes)),
             errors |-> c.errors]

WorkoutRow(user_id, exercise_type_id, duration, calories, intensity, workout_date, notes) ==
  [user_id |-> user_id, exercise_type_id |-> exercise_type_id,
   duration_minutes |-> duration, calories_burned |-> calories,
   intensity_level |-> intensity, workout_date |-> workout_date, notes |-> notes]

add_workout_session(table, user_id, exercise_type_id, duration, calories, intensity, workout_date, notes, o) ==
  LET c == get_db_connection(o) IN
  IF ~c.conn THEN [ok |-> FALSE, table |-> table, errors |-> c.errors]
  ELSE IF o \in {"execute_error", "commit_error"}
       THEN [ok |-> FALSE, table |-> table,
             errors |-> c.errors \o <<"Error adding workout session">>]
       ELSE [ok |-> TRUE,
             table |-> Append(table, WorkoutRow(user_id, exercise_type_id, duration,
                                                calories, intensity, workout_date, notes)),
             errors |-> c.errors]

(* ------------------------------ Init ---------------------------------- *)
BlankView ==
  [tab |-> "none", metrics |-> <<>>, progress |-> <<>>, info |-> <<>>,
   table |-> <<>>, rerun |-> FALSE]

NoCall == [op |-> "none", tab |-> "none", user_id |-> 0, args |-> <<>>, outcome |-> <<>>]

Init ==
  /\ users = SeedUsers
  /\ exercise_types = SeedExerciseTypes
  /\ goals = SeedGoals
  /\ weight_records \in SeedWeightRecords
  /\ workout_sessions = <<>>
  /\ call = NoCall
  /\ df = EmptyDataFrame
  /\ ok = FALSE
  /\ raised = "none"
  /\ errors = <<>>
  /\ view = BlankView

(* -------------- the data-access functions, called directly ------------ *)
Loaded(op, user_id, o, r) ==
  /\ call' = [op |-> op, tab |-> "none", user_id |-> user_id, args |-> <<>>,
              outcome |-> <<o>>]
  /\ df' = r.df
  /\ raised' = r.raised
  /\ errors' = r.errors
  /\ ok' = FALSE
  /\ UNCHANGED <<db, view>>

LoadUsers ==
  \E o \in ReadOutcomes : Loaded("load_users", 0, o, load_users(o, users))

LoadWeightData ==
  \E user_id \in UserIds, o \in ReadOutcomes :
    \E rs \in weight_query(weight_records, user_id) :
      Loaded("load_weight_data", user_id, o, load_weight_data(o, rs))

LoadWorkoutData ==
  \E user_id \in UserIds, o \in ReadOutcomes :
    \E rs \in workout_query(workout_sessions, exercise_types, user_id) :
      Loaded("load_workout_data", user_id, o, load_workout_data(o, rs))

LoadGoals ==
  \E user_id \in UserIds, o \in ReadOutcomes :
    Loaded("load_goals", user_id, o, load_goals(o, goals_query(goals, user_id)))

LoadExerciseTypes ==
  \E o \in ReadOutcomes :
    Loaded("load_exercise_types", 0, o, load_exercise_types(o, exercise_types))

AddWeightRecord ==
  \E user_id \in UserIds, e \in WeightEntries, n \in Notes, o \in WriteOutcomes :
    LET r == add_weight_record(weight_records, user_id, e[1], e[2], n, o) IN
    /\ Len(r.table) <= MaxWeightRows
    /\ call' = [op |-> "add_weight_record", tab |-> "none", user_id |-> user_id,
                args |-> e \o <<n>>, outcome |-> <<o>>]
    /\ weight_records' = r.table
    /\ ok' = r.ok
    /\ errors' = r.errors
    /\ raised' = "none"
    /\ df' = EmptyDataFrame
    /\ UNCHANGED <<users, exercise_types, goals, workout_sessions, view>>

AddWorkoutSession ==
  \E user_id \in UserIds, a \in WorkoutArgs, n \in Notes, o \in WriteOutcomes :
    LET r == add_workout_session(workout_sessions, user_id, a[1], a[2], a[3],
                                 a[4], a[5], n, o) IN
    /\ Len(r.table) <= MaxWorkoutRows
    /\ call' = [op |-> "add_workout_session", tab |-> "none", user_id |-> user_id,
                args |-> a \o <<n>>, outcome |-> <<o>>]
    /\ workout_sessions' = r.table
    /\ ok' = r.ok
    /\ errors' = r.errors
    /\ raised' = "none"
    /\ df' = EmptyDataFrame
    /\ UNCHANGED <<users, exercise_types, goals, weight_records, view>>

NextDAL ==
  \/ LoadUsers
  \/ LoadWeightData
  \/ LoadWorkoutData
  \/ LoadGoals
  \/ LoadExerciseTypes
  \/ AddWeightRecord
  \/ AddWorkoutSession

SpecDAL == Init /\ [][NextDAL]_vars

(* ============================ the views =============================== *)
(* What a run of the script put on the page: the st.metric callouts, the   *)
(* st.progress values, the st.info notes, the rows handed to st.dataframe, *)
(* and whether the run ended in st.experimental_rerun().                   *)
Text(s)        == [kind |-> "text", s |-> s, n |-> 0]
Number(n)      == [kind |-> "int", s |-> "", n |-> n]
Kg(n)          == [kind |-> "kg", s |-> "", n |-> n]
\* f"{x:+.1f} kg": an explicit sign and the magnitude to one decimal
SignedKg(n)    == [kind |-> "signed kg", s |-> IF n < 0 THEN "-" ELSE "+",
                   n |-> IF n < 0 THEN -n ELSE n]
Metric(label, value) == [label |-> label, value |-> value]

RECURSIVE SumCalories(_)
SumCalories(rows) ==
  IF rows = <<>> THEN 0
  ELSE Head(rows).calories_burned + SumCalories(Tail(rows))

MinWeight(rows) ==
  CHOOSE m \in {rows[i].weight_kg : i \in DOMAIN rows} :
    \A i \in DOMAIN rows : m <= rows[i].weight_kg
MaxWeightOf(rows) ==
  CHOOSE m \in {rows[i].weight_kg : i \in DOMAIN rows} :
    \A i \in DOMAIN rows : m >= rows[i].weight_kg

\* weight_df.iloc[-1]["weight_kg"]
current_weight(weight_df) == weight_df.rows[Len(weight_df.rows)].weight_kg

\* the operands exchanged
weight_change_Reversed(weight_df) ==
  weight_df.rows[1].weight_kg - weight_df.rows[Len(weight_df.rows)].weight_kg

\* weight_df.iloc[-1]["weight_kg"] - weight_df.iloc[0]["weight_kg"]
weight_change(weight_df) ==
  weight_df.rows[Len(weight_df.rows)].weight_kg - weight_df.rows[1].weight_kg

\* len(goals_df[goals_df["status"] == "active"])
active_goals(goals_df) ==
  Cardinality({i \in DOMAIN goals_df.rows : goals_df.rows[i].status = Active})

Raise(v, exception, errs) == [view |-> v, raised |-> exception, errors |-> errs]
Done(v, errs)             == [view |-> v, raised |-> "none", errors |-> errs]

\* w, k, g are the outcomes of load_weight_data, load_workout_data and
\* load_goals; a load that raises ends the run before the next one is made.
show_dashboard(w, k, g) ==
  LET v0 == [BlankView EXCEPT !.tab = "Dashboard"]
      m3 == << Metric("Current Weight",
                      IF ~empty(w.df) THEN Kg(current_weight(w.df))
                      ELSE Text("No data")),
               Metric("Total Workouts",
                      IF ~empty(k.df) THEN Number(Len(k.df.rows)) ELSE Text("0")),
               Metric("Total Calories Burned",
                      IF ~empty(k.df) THEN Number(SumCalories(k.df.rows))
                      ELSE Text("0")) >>
      notes == (IF empty(w.df) THEN <<"No weight data available">> ELSE <<>>)
               \o (IF empty(k.df) THEN <<"No workout data available">> ELSE <<>>)
  IN
  IF w.raised # "none" THEN Raise(v0, w.raised, w.errors)
  ELSE IF k.raised # "none" THEN Raise(v0, k.raised, w.errors \o k.errors)
  ELSE IF g.raised # "none"
       THEN Raise(v0, g.raised, w.errors \o k.errors \o g.errors)
  ELSE IF ~g.df.columns
       \* goals_df["status"] on a frame without columns
       THEN Raise([v0 EXCEPT !.metrics = m3], "KeyError",
                  w.errors \o k.errors \o g.errors)
  ELSE Done([v0 EXCEPT
               !.metrics = m3 \o <<Metric("Active Goals", Number(active_goals(g.df)))>>,
               !.info = notes],
            w.errors \o k.errors \o g.errors)

\* weight_df.sort_values("recorded_date", ascending=False): later dates
\* first, rows of equal date in the order they have in the frame
sort_values_descending(rows) ==
  LET Before(i, j) ==
        \/ rows[i].recorded_date > rows[j].recorded_date
        \/ rows[i].recorded_date = rows[j].recorded_date /\ i < j
      Place(i) == 1 + Cardinality({j \in DOMAIN rows : Before(j, i)})
  IN  [n \in 1..Len(rows) |-> rows[CHOOSE i \in DOMAIN rows : Place(i) = n]]

show_weight_tracking(w) ==
  LET v0 == [BlankView EXCEPT !.tab = "Weight Tracking"] IN
  IF w.raised # "none" THEN Raise(v0, w.raised, w.errors)
  ELSE IF ~empty(w.df)
  THEN Done([v0 EXCEPT
               !.metrics = << Metric("Minimum Weight", Kg(MinWeight(w.df.rows))),
                              Metric("Maximum Weight", Kg(MaxWeightOf(w.df.rows))),
                              Metric("Total Change", SignedKg(weight_change(w.df))) >>,
               !.table = sort_values_descending(w.df.rows)],
            w.errors)
  ELSE Done([v0 EXCEPT !.info =
               <<"No weight data available. Add some records to see your progress!">>],
            w.errors)

RecentRows == 10

show_workout_log(k) ==
  LET v0 == [BlankView EXCEPT !.tab = "Workout Log"] IN
  IF k.raised # "none" THEN Raise(v0, k.raised, k.errors)
  ELSE IF ~empty(k.df)
  THEN Done([v0 EXCEPT !.table =
               SubSeq(k.df.rows, 1,
                      IF Len(k.df.rows) < RecentRows THEN Len(k.df.rows)
                      ELSE RecentRows)],
            k.errors)
  ELSE Done([v0 EXCEPT !.info =
               <<"No workout data available. Start logging your workouts!">>],
            k.errors)

\* Fractions num/den with den > 0 stand for the floating-point values.
\* (current_value / target_value) * 100 if target_value > 0 else 0
goal_progress(goal) ==
  IF goal.target_value > 0
  THEN [num |-> goal.current_value * 100, den |-> goal.target_value]
  ELSE [num |-> 0, den |-> 1]

\* min(progress / 100, 1.0)
progress_value(progress) ==
  IF progress.num > progress.den * 100
  THEN [num |-> 1, den |-> 1]
  ELSE [num |-> progress.num, den |-> progress.den * 100]

\* st.progress accepts a float in [0.0, 1.0] and raises otherwise
ProgressAccepts(x) == 0 <= x.num /\ x.num <= x.den

RECURSIVE GoalBars(_)
\* the bars drawn by the loop over goals_df.iterrows(), up to and
\* including the first value st.progress rejects
GoalBars(rows) ==
  IF rows = <<>> THEN <<>>
  ELSE LET x == progress_value(goal_progress(Head(rows))) IN
       IF ProgressAccepts(x) THEN <<x>> \o GoalBars(Tail(rows)) ELSE <<x>>

\* goal["target_date"].strftime("%Y-%m-%d") if goal["target_date"] else
\* "No date"; a goal without target date carries 0
TargetDate(goal) ==
  IF goal.target_date = 0 THEN Text("No date")
  ELSE [kind |-> "date", s |-> "", n |-> goal.target_date]

\* The characters str.title() treats as cased, among those below U+0100:
\* A-Z, a-z, the ordinal indicators, the micro sign and the Latin-1 letters.
IsCased(c) ==
  c \in (65..90) \cup (97..122) \cup {170, 181, 186}
         \cup (192..214) \cup (216..246) \cup (248..255)

\* the lowercase mapping of a character, as a sequence of code points
ToLower(c) ==
  IF c \in (65..90) \cup (192..214) \cup (216..222) THEN <<c + 32>> ELSE <<c>>

\* the titlecase mapping of a character, as a sequence of code points:
\* the sharp s becomes "Ss", the micro sign U+039C, y with diaeresis U+0178
ToTitle(c) ==
  IF c \in (97..122) \cup (224..246) \cup (248..254) THEN <<c - 32>>
  ELSE IF c = 223 THEN <<83, 115>>
  ELSE IF c = 181 THEN <<924>>
  ELSE IF c = 255 THEN <<376>>
  ELSE <<c>>

RECURSIVE TitleFrom(_, _)
\* a character that follows a cased character takes its lowercase
\* mapping, any other character its titlecase mapping
TitleFrom(chars, previous_is_cased) ==
  IF chars = <<>> THEN <<>>
  ELSE (IF previous_is_cased THEN ToLower(Head(chars)) ELSE ToTitle(Head(chars)))
       \o TitleFrom(Tail(chars), IsCased(Head(chars)))

\* str.title()
Title(status) == TitleFrom(status, FALSE)

\* f"{status_color} {goal['status'].title()}", green for active, red otherwise
Status(goal) ==
  [kind |-> IF goal.status = Active THEN "green" ELSE "red",
   s |-> "", n |-> 0, chars |-> Title(goal.status)]

RECURSIVE GoalMetrics(_)
\* the Target Date and Status callouts of the goals before the first one
\* whose bar st.progress rejects
GoalMetrics(rows) ==
  IF rows = <<>> THEN <<>>
  ELSE IF ProgressAccepts(progress_value(goal_progress(Head(rows))))
       THEN << Metric("Target Date", TargetDate(Head(rows))),
               Metric("Status", Status(Head(rows))) >>
            \o GoalMetrics(Tail(rows))
       ELSE <<>>

show_goals(g) ==
  LET v0   == [BlankView EXCEPT !.tab = "Goals",
                                !.metrics = GoalMetrics(g.df.rows)]
      bars == GoalBars(g.df.rows)
  IN
  IF g.raised # "none" THEN Raise(v0, g.raised, g.errors)
  ELSE IF ~empty(g.df)
  THEN IF \E i \in DOMAIN bars : ~ProgressAccepts(bars[i])
       THEN Raise([v0 EXCEPT !.progress = bars], "StreamlitAPIException", g.errors)
       ELSE Done([v0 EXCEPT !.progress = bars], g.errors)
  ELSE Done([v0 EXCEPT !.info =
               <<"No goals set. Set some goals to track your progress!">>],
            g.errors)

(* ------------------------- the two forms ------------------------------ *)
WeightMinValue    == 0
WeightMaxValue    == 3000    \* max_value=300.0 kg, in tenths
DurationMinValue  == 1
DurationMaxValue  == 300
DurationDefault   == 30
CaloriesMinValue  == 0
CaloriesMaxValue  == 2000
CaloriesDefault   == 100

\* the values st.number_input(min_value=..., max_value=...) can hold
number_input(min_value, max_value) == min_value..max_value

\* the guard written with >=
weight_form_accepts_NonNegative(submitted, weight) == submitted /\ weight >= 0

\* if submitted and weight > 0:
weight_form_accepts(submitted, weight) == submitted /\ weight > 0

\* A form filling: which button was pressed and what the widgets held.
NoSubmit == [submit |-> "none", weight |-> 0, date |-> 1, notes |-> "",
             exercise |-> 1, duration |-> 30, calories |-> 100,
             intensity |-> "low"]

WeightForms ==
  { f \in { [NoSubmit EXCEPT !.submit = "weight", !.weight = e[1], !.date = e[2]] :
              e \in WeightEntries \cup { <<0, 1>>, <<-1, 1>> } } :
      f.weight \in number_input(WeightMinValue, WeightMaxValue) }

WorkoutForms ==
  { f \in { [NoSubmit EXCEPT !.submit = "workout", !.exercise = a[1],
                             !.duration = a[2], !.calories = a[3],
                             !.intensity = a[4], !.date = a[5]] :
              a \in WorkoutEntries } :
      /\ f.duration \in number_input(DurationMinValue, DurationMaxValue)
      /\ f.calories \in number_input(CaloriesMinValue, CaloriesMaxValue) }

\* <<form, outcome of the insert, outcome of load_exercise_types>>: every
\* filling with nothing failing, and with each single failure of a call
\* the filling leads to.
FormRuns ==
  { <<f, "ok", "ok">> : f \in {NoSubmit} \cup WeightForms \cup WorkoutForms }
  \cup { <<f, oa, "ok">> :
           f \in { g \in WeightForms : g.weight = 700 } \cup WorkoutForms,
           oa \in WriteOutcomes \ {"ok"} }
  \cup { <<f, "ok", oe>> :
           f \in {NoSubmit} \cup { g \in WeightForms : g.weight = 0 } \cup WorkoutForms,
           oe \in ReadOutcomes \ {"ok"} }

\* outcomes of the three loads of the dashboard, at most one of them failing
DashboardOutcomes ==
  { o \in [1..3 -> ReadOutcomes] :
      \A i, j \in 1..3 : (o[i] # "ok" /\ o[j] # "ok") => i = j }

\* ow and ok_ are the outcomes of the two inserts should they be made, e is
\* the outcome of load_exercise_types.  The result carries the two tables
\* as the run leaves them.
show_add_records(user_id, wtable, ktable, form, ow, e, ok_) ==
  LET v0       == [BlankView EXCEPT !.tab = "Add Records"]
      weight   == form.weight
      duration == form.duration
      calories == form.calories
      aw       == add_weight_record(wtable, user_id, weight, form.date, form.notes, ow)
      ak       == add_workout_session(ktable, user_id, form.exercise, duration,
                                      calories, form.intensity, form.date,
                                      form.notes, ok_)
      wcalled  == weight_form_accepts(form.submit = "weight", weight)
      werrs    == IF wcalled THEN aw.errors ELSE <<>>
      wtable2  == IF wcalled THEN aw.table ELSE wtable
      With(r)  == [view |-> r.view, raised |-> r.raised, errors |-> r.errors,
                   weight_records |-> wtable2, workout_sessions |-> ktable]
  IN
  IF wcalled /\ aw.ok
  THEN With(Done([v0 EXCEPT !.info = <<"Weight record added successfully!">>,
                            !.rerun = TRUE], werrs))
  ELSE IF e.raised # "none" THEN With(Raise(v0, e.raised, werrs \o e.errors))
  ELSE IF empty(e.df)
  THEN With(Done(v0, werrs \o e.errors \o <<"No exercise types found in database">>))
  ELSE IF form.submit = "workout"
  THEN IF ak.ok
       THEN [view |-> [v0 EXCEPT !.info = <<"Workout session added successfully!">>,
                                 !.rerun = TRUE],
             raised |-> "none", errors |-> werrs \o e.errors \o ak.errors,
             weight_records |-> wtable2, workout_sessions |-> ak.table]
       ELSE With(Done(v0, werrs \o e.errors \o ak.errors))
  ELSE With(Done(v0, werrs \o e.errors))

(* ------------------------------ main ---------------------------------- *)
\* u is the outcome of load_users, body the outcome of the selected view
main(u, body) ==
  IF u.raised # "none" THEN Raise(BlankView, u.raised, u.errors)
  ELSE IF empty(u.df)
  THEN Done(BlankView, u.errors \o <<"No users found in database">>)
  ELSE [view |-> body.view, raised |-> body.raised,
        errors |-> u.errors \o body.errors]

\* f"{row['username']} ({row['email']})": the username, " (", the email, ")"
UserLabel(row) == row.username \o <<32, 40>> \o row.email \o <<41>>

\* user_options maps the label of each row to its id, a later row
\* replacing an earlier one of the same label; the selectbox offers the
\* labels, and so the ids that remain
UserOptions(users_df) ==
  LET rows == users_df.rows
  IN  { rows[i].id :
          i \in { k \in DOMAIN rows :
                    \A m \in DOMAIN rows :
                      m > k => UserLabel(rows[m]) # UserLabel(rows[k]) } }

Rendered(tab, user_id, args, outcome, r) ==
  /\ call' = [op |-> "main", tab |-> tab, user_id |-> user_id, args |-> args,
              outcome |-> outcome]
  /\ view' = r.view
  /\ raised' = r.raised
  /\ errors' = r.errors
  /\ df' = EmptyDataFrame
  /\ ok' = FALSE

\* load_users failed: main() ends before it reads the selection widgets
RenderNoUsers ==
  \E ou \in ReadOutcomes \ {"ok"} :
    \E r \in {main(load_users(ou, users), Done(BlankView, <<>>))} :
      /\ Rendered("none", 0, <<>>, <<ou>>, r)
      /\ UNCHANGED db

RenderDashboard ==
  \E user_id \in UserOptions(read_sql(users)), o \in DashboardOutcomes :
    \E rw \in weight_query(weight_records, user_id),
       rk \in workout_query(workout_sessions, exercise_types, user_id) :
      \E u \in {load_users("ok", users)},
         w \in {load_weight_data(o[1], rw)},
         k \in {load_workout_data(o[2], rk)},
         g \in {load_goals(o[3], goals_query(goals, user_id))} :
        \E r \in {main(u, show_dashboard(w, k, g))} :
          /\ Rendered("Dashboard", user_id, <<>>, <<"ok">> \o o, r)
          /\ UNCHANGED db

RenderWeightTracking ==
  \E user_id \in UserOptions(read_sql(users)), o1 \in ReadOutcomes :
    \E rw \in weight_query(weight_records, user_id) :
      \E u \in {load_users("ok", users)}, w \in {load_weight_data(o1, rw)} :
        \E r \in {main(u, show_weight_tracking(w))} :
          /\ Rendered("Weight Tracking", user_id, <<>>, <<"ok", o1>>, r)
          /\ UNCHANGED db

RenderWorkoutLog ==
  \E user_id \in UserOptions(read_sql(users)), o1 \in ReadOutcomes :
    \E rk \in workout_query(workout_sessions, exercise_types, user_id) :
      \E u \in {load_users("ok", users)}, k \in {load_workout_data(o1, rk)} :
        \E r \in {main(u, show_workout_log(k))} :
          /\ Rendered("Workout Log", user_id, <<>>, <<"ok", o1>>, r)
          /\ UNCHANGED db

RenderGoals ==
  \E user_id \in UserOptions(read_sql(users)), o1 \in ReadOutcomes :
    \E u \in {load_users("ok", users)},
       g \in {load_goals(o1, goals_query(goals, user_id))} :
      \E r \in {main(u, show_goals(g))} :
        /\ Rendered("Goals", user_id, <<>>, <<"ok", o1>>, r)
        /\ UNCHANGED db

RenderAddRecords ==
  \E user_id \in UserOptions(read_sql(users)), run \in FormRuns :
    \E u \in {load_users("ok", users)},
       e \in {load_exercise_types(run[3], exercise_types)} :
      \E body \in {show_add_records(user_id, weight_records, workout_sessions,
                                    run[1], run[2], e, run[2])} :
        /\ Len(body.weight_records) <= MaxWeightRows
        /\ Len(body.workout_sessions) <= MaxWorkoutRows
        /\ Rendered("Add Records", user_id, <<run[1]>>, <<"ok", run[2], run[3]>>,
                    main(u, body))
        /\ weight_records' = body.weight_records
        /\ workout_sessions' = body.workout_sessions
        /\ UNCHANGED <<users, exercise_types, goals>>

Next ==
  \/ RenderNoUsers
  \/ RenderDashboard
  \/ RenderWeightTracking
  \/ RenderWorkoutLog
  \/ RenderGoals
  \/ RenderAddRecords

Spec == Init /\ [][Next]_vars

(* ===================== properties of the data access ================== *)
ReadOps  == {"load_users", "load_weight_data", "load_workout_data",
             "load_goals", "load_exercise_types"}
WriteOps == {"add_weight_record", "add_workout_session"}

SortedAscending(rows) ==
  \A i, j \in DOMAIN rows : i < j => rows[i].recorded_date <= rows[j].recorded_date

StoredWeightRows(user_id) ==
  LET sel == WhereUser(weight_records, user_id)
  IN  [i \in 1..Len(sel) |-> WeightColumns(sel[i])]

\* C1 as stated: whenever load_weight_data(u) returns, it returns every
\* stored record of u (the seeded ones and each one appended by a
\* successful add_weight_record) exactly once, in ascending recorded_date
\* order.
C1_Original ==
  (call.op = "load_weight_data" /\ raised = "none") =>
    /\ SameBag(df.rows, StoredWeightRows(call.user_id))
    /\ SortedAscending(df.rows)

\* C1 amended: whenever load_weight_data(u) returns, then if its
\* connection opened it returns every stored record of u (the seeded
\* ones and each one appended by a successful add_weight_record, whatever
\* the order of the dates) exactly once, in ascending recorded_date order;
\* and if its connection could not be opened it returns the empty
\* DataFrame, whatever is stored, with the connection error reported.
C1_ReloadIncludesEachRecordOnce ==
  (call.op = "load_weight_data" /\ raised = "none") =>
    IF call.outcome = <<"connect_error">>
    THEN /\ df = EmptyDataFrame
         /\ errors = <<"Database connection error">>
    ELSE /\ df.columns
         /\ errors = <<>>
         /\ SameBag(df.rows, StoredWeightRows(call.user_id))
         /\ SortedAscending(df.rows)

\* two records of one user with different dates, the later-dated one
\* appended first, then reloaded over an open connection
C1_Witness ==
  /\ call.op = "load_weight_data" /\ raised = "none"
  /\ call.outcome = <<"ok">>
  /\ Len(df.rows) = 2
  /\ df.rows[1].recorded_date < df.rows[2].recorded_date
  /\ weight_records \notin SeedWeightRecords
  /\ \E i, j \in DOMAIN weight_records :
       /\ i < j
       /\ weight_records[i].user_id = call.user_id
       /\ weight_records[j].user_id = call.user_id
       /\ weight_records[i].recorded_date > weight_records[j].recorded_date

\* C2: a call of add_weight_record / add_workout_session returns True
\* exactly when it appended one row holding its arguments to its table;
\* when it returns False both tables are as before; the other table and
\* the seeded tables never change.
C2_AddStep ==
  /\ call'.op = "add_weight_record" =>
       /\ ok' <=> weight_records' =
                    Append(weight_records,
                           WeightRow(call'.user_id, call'.args[1],
                                     call'.args[2], call'.args[3]))
       /\ ~ok' => weight_records' = weight_records
       /\ UNCHANGED <<users, exercise_types, goals, workout_sessions>>
  /\ call'.op = "add_workout_session" =>
       /\ ok' <=> workout_sessions' =
                    Append(workout_sessions,
                           WorkoutRow(call'.user_id, call'.args[1], call'.args[2],
                                      call'.args[3], call'.args[4], call'.args[5],
                                      call'.args[6]))
       /\ ~ok' => workout_sessions' = workout_sessions
       /\ UNCHANGED <<users, exercise_types, goals, weight_records>>

\* C2: every step that is a call of add_* is atomic and its result faithful
C2_AtomicFaithfulWrites == [][C2_AddStep]_vars

\* an insert that failed after the connection opened, on a non-empty table
C2_Witness ==
  /\ call.op = "add_weight_record"
  /\ call.outcome = <<"commit_error">>
  /\ ~ok
  /\ Len(weight_records) > 0

\* C3: when the connection cannot be opened, a load_* returns the empty
\* DataFrame, an add_* returns False, nothing is raised, the connection
\* error is reported, and no table changes.
C3_ConnectStep ==
  (call'.op \in ReadOps \cup WriteOps /\ call'.outcome = <<"connect_error">>) =>
    /\ raised' = "none"
    /\ errors' = <<"Database connection error">>
    /\ call'.op \in ReadOps => df' = EmptyDataFrame
    /\ call'.op \in WriteOps => ok' = FALSE
    /\ UNCHANGED db

\* C3: every step in which the connection cannot be opened is contained
C3_ConnectionFailureContained == [][C3_ConnectStep]_vars

\* a read that could not connect although the user has stored records
C3_Witness ==
  /\ call.op = "load_weight_data"
  /\ call.outcome = <<"connect_error">>
  /\ Len(WhereUser(weight_records, call.user_id)) > 0

\* C4 as stated: when the connection opens and the query or insert then
\* fails, nothing is raised to the caller and a message is reported, for
\* the five reads and the two writes; the writes return False.
C4_QueryFailureCaught ==
  (/\ call.op \in ReadOps \cup WriteOps
   /\ call.outcome \in {<<"query_error">>, <<"execute_error">>, <<"commit_error">>}) =>
    /\ raised = "none"
    /\ errors # <<>>
    /\ call.op \in WriteOps => ~ok

\* C10: a load for user u returns rows of u only, and a successful add for
\* user a leaves what every read returns for every other user unchanged.
JoinedRows(user_id) ==
  JoinExercise(WhereUser(workout_sessions, user_id), exercise_types)

C10_OnlyOwnRows ==
  (call.op \in ReadOps /\ raised = "none") =>
    /\ call.op = "load_weight_data" =>
         \A i \in DOMAIN df.rows :
            Count(df.rows, df.rows[i]) <= Count(StoredWeightRows(call.user_id), df.rows[i])
    /\ call.op = "load_workout_data" =>
         \A i \in DOMAIN df.rows :
            Count(df.rows, df.rows[i]) <= Count(JoinedRows(call.user_id), df.rows[i])
    /\ call.op = "load_goals" =>
         \A i \in DOMAIN df.rows :
            Count(df.rows, df.rows[i]) <= Count(goals_query(goals, call.user_id), df.rows[i])

C10_WriteStep ==
  (call'.op \in WriteOps /\ ok') =>
    \A b \in UserIds \ {call'.user_id} :
       /\ weight_query(weight_records', b) = weight_query(weight_records, b)
       /\ workout_query(workout_sessions', exercise_types', b)
            = workout_query(workout_sessions, exercise_types, b)
       /\ goals_query(goals', b) = goals_query(goals, b)
       /\ users' = users
       /\ exercise_types' = exercise_types

\* C10: reads return own rows only, and writes leave other users' reads alone
C10_PerUserIsolation == []C10_OnlyOwnRows /\ [][C10_WriteStep]_vars

\* a write for one user while another user has stored records
C10_Witness ==
  /\ call.op = "add_weight_record" /\ ok
  /\ \E b \in UserIds \ {call.user_id} : Len(WhereUser(weight_records, b)) > 0

(* ======================= properties of the views ====================== *)
IsPrefix(s, t) == Len(s) <= Len(t) /\ SubSeq(t, 1, Len(s)) = s

\* C5: whatever is rendered or submitted, the rows already in
\* weight_records and workout_sessions stay as they are and in place, a
\* run adds at most one row, only in a run of Add Records whose form was
\* submitted and only for the selected user, and users, exercise_types and
\* goals never change.
C5_Step ==
  /\ UNCHANGED <<users, exercise_types, goals>>
  /\ IsPrefix(weight_records, weight_records')
  /\ IsPrefix(workout_sessions, workout_sessions')
  /\ weight_records' # weight_records =>
       /\ call'.tab = "Add Records" /\ call'.args[1].submit = "weight"
       /\ Len(weight_records') = Len(weight_records) + 1
       /\ weight_records'[Len(weight_records')].user_id = call'.user_id
       /\ workout_sessions' = workout_sessions
  /\ workout_sessions' # workout_sessions =>
       /\ call'.tab = "Add Records" /\ call'.args[1].submit = "workout"
       /\ Len(workout_sessions') = Len(workout_sessions) + 1
       /\ workout_sessions'[Len(workout_sessions')].user_id = call'.user_id
       /\ weight_records' = weight_records

\* C5: every step only appends, through the submitted form, for the selected user
C5_AppendOnly == [][C5_Step]_vars

\* a second weight record has just been appended after an earlier one
C5_Witness ==
  /\ call.tab = "Add Records" /\ view.rerun
  /\ call.args[1].submit = "weight"
  /\ Len(weight_records) >= 2
  /\ Len(workout_sessions) >= 1

\* C6: every stored weight is positive, every stored duration is positive
\* and every stored calorie count is non-negative after any sequence of
\* form submissions, and a weight form submitted with weight 0 inserts
\* nothing.
C6_StoreValid ==
  /\ \A i \in DOMAIN weight_records : weight_records[i].weight_kg > 0
  /\ \A i \in DOMAIN workout_sessions :
       /\ workout_sessions[i].duration_minutes > 0
       /\ workout_sessions[i].calories_burned >= 0

C6_ZeroWeightStep ==
  (/\ call'.tab = "Add Records"
   /\ call'.args[1].submit = "weight"
   /\ call'.args[1].weight = 0) => UNCHANGED db

\* C6: the stored values stay within their ranges and weight 0 inserts nothing
C6_FormBoundsKeepStoreValid == []C6_StoreValid /\ [][C6_ZeroWeightStep]_vars

\* a weight form submitted with 0 after the workout form stored an entry
\* at the low end of its ranges
C6_Witness ==
  /\ call.tab = "Add Records"
  /\ call.args[1].submit = "weight" /\ call.args[1].weight = 0
  /\ raised = "none"
  /\ Len(workout_sessions) > 0

\* C7 as stated: when the three loads of the dashboard return (whatever
\* they return, the empty frame of a failed connection included), the
\* dashboard renders without failing and shows Current Weight (the last
\* record by date, or "No data"), Total Workouts and Total Calories Burned
\* (0 when there is no workout) and Active Goals (0 when there is no goal).
IsZero(value) ==
  \/ value.kind = "text" /\ value.s = "0"
  \/ value.kind = "int" /\ value.n = 0

C7_Expected(user_id, o) ==
  LET ws == IF o[2] = "ok" THEN StoredWeightRows(user_id) ELSE <<>>
      ks == IF o[3] = "ok"
            THEN JoinExercise(WhereUser(workout_sessions, user_id), exercise_types)
            ELSE <<>>
      gs == IF o[4] = "ok" THEN goals_query(goals, user_id) ELSE <<>>
  IN
  /\ Len(view.metrics) = 4
  /\ view.metrics[1].label = "Current Weight"
  /\ IF ws = <<>> THEN view.metrics[1].value = Text("No data")
     ELSE \E i \in DOMAIN ws :
            /\ \A j \in DOMAIN ws : ws[j].recorded_date <= ws[i].recorded_date
            /\ view.metrics[1].value = Kg(ws[i].weight_kg)
  /\ view.metrics[2].label = "Total Workouts"
  /\ IF ks = <<>> THEN IsZero(view.metrics[2].value)
     ELSE view.metrics[2].value = Number(Len(ks))
  /\ view.metrics[3].label = "Total Calories Burned"
  /\ IF ks = <<>> THEN IsZero(view.metrics[3].value)
     ELSE view.metrics[3].value = Number(SumCalories(ks))
  /\ view.metrics[4].label = "Active Goals"
  /\ view.metrics[4].value =
       Number(Cardinality({i \in DOMAIN gs : gs[i].status = Active}))

\* C7: the dashboard renders the four callouts whatever the loads return
C7_DashboardRenders ==
  (/\ call.tab = "Dashboard"
   /\ \A i \in DOMAIN call.outcome : call.outcome[i] # "query_error") =>
    /\ raised = "none"
    /\ C7_Expected(call.user_id, call.outcome)

\* C8 as stated: for every goal row the Goals view hands st.progress the
\* value current_value / target_value (0 when target_value <= 0) clamped to
\* [0, 1], nothing fails, and the goal rows are not modified.
C8_ExpectedBar(goal, x) ==
  LET p == IF goal.target_value > 0
           THEN [num |-> goal.current_value, den |-> goal.target_value]
           ELSE [num |-> 0, den |-> 1]
      c == IF p.num < 0 THEN [num |-> 0, den |-> 1]
           ELSE IF p.num > p.den THEN [num |-> 1, den |-> 1] ELSE p
  IN  /\ x.den > 0
      /\ x.num * c.den = c.num * x.den
      /\ 0 <= x.num /\ x.num <= x.den

\* C8: every bar of the Goals view is the clamped progress of its goal
C8_GoalProgressClamped ==
  (call.tab = "Goals" /\ call.outcome = <<"ok", "ok">>) =>
    LET gs == goals_query(goals, call.user_id) IN
    /\ raised = "none"
    /\ goals = SeedGoals
    /\ Len(view.progress) = Len(gs)
    /\ \A i \in DOMAIN gs : C8_ExpectedBar(gs[i], view.progress[i])

\* C9: the Total Change shown by Weight Tracking is the weight of a
\* latest-dated record of the user minus the weight of an earliest-dated
\* one (two different records when the user has several), whatever the
\* order in which the records were appended; it is +0.0 when the user has
\* one record; when the user has no record no metric is shown and the
\* "no data" note is.
ShownChange(value) == IF value.s = "-" THEN -value.n ELSE value.n

\* C9: Total Change is latest-dated minus earliest-dated weight
C9_TotalChange ==
  (call.tab = "Weight Tracking" /\ raised = "none") =>
    LET ws == StoredWeightRows(call.user_id) IN
    /\ view.metrics # <<>> =>
         /\ Len(view.metrics) = 3
         /\ view.metrics[3].label = "Total Change"
         /\ view.metrics[3].value.kind = "signed kg"
         /\ \E i, j \in DOMAIN ws :
              /\ \A m \in DOMAIN ws : ws[m].recorded_date <= ws[i].recorded_date
              /\ \A m \in DOMAIN ws : ws[j].recorded_date <= ws[m].recorded_date
              /\ Len(ws) >= 2 => i # j
              /\ ShownChange(view.metrics[3].value) = ws[i].weight_kg - ws[j].weight_kg
         /\ Len(ws) = 1 => view.metrics[3].value = SignedKg(0)
    /\ (call.outcome = <<"ok", "ok">> /\ ws # <<>>) => view.metrics # <<>>
    /\ ws = <<>> =>
         /\ view.metrics = <<>>
         /\ view.info =
              <<"No weight data available. Add some records to see your progress!">>

\* the later-dated record was appended first and the change is a loss
C9_Witness ==
  /\ call.tab = "Weight Tracking" /\ raised = "none"
  /\ Len(view.metrics) = 3
  /\ view.metrics[3].value = [kind |-> "signed kg", s |-> "-", n |-> 15]
  /\ Len(StoredWeightRows(call.user_id)) = 2
  /\ \E i, j \in DOMAIN weight_records :
       /\ i < j
       /\ weight_records[i].user_id = call.user_id
       /\ weight_records[j].user_id = call.user_id
       /\ weight_records[i].recorded_date > weight_records[j].recorded_date

====
